---- MODULE Spec2Model ----
(***************************************************************************)
(* gofilededup (cmd/root.go): one run of rootCmd.RunE.                     *)
(*                                                                         *)
(* The run checks its preconditions, walks the input tree feeding every    *)
(* non-empty regular file to the content index (files, dupFiles), then     *)
(* applies the duplicate action and the flatten action to the filesystem.  *)
(*                                                                         *)
(* A Go string is a sequence of one-character strings, so that len, Join,  *)
(* Dir, Base, Clean and Sprint are computed as the Go library computes     *)
(* them.                                                                   *)
(***************************************************************************)
EXTENDS Integers, Sequences, FiniteSets, TLC

\* ------------------------------------------------------------------ bounds

\* modification times are drawn from 1..MaxTime
MaxTime == 2
\* non-empty file contents (hence fingerprints) are drawn from 1..MaxSha
MaxSha == 3

\* ----------------------------------------------------------------- strings

SLASH == "/"
DOT == "."

\* byte values of the characters that occur in the modelled names
Ord(c) ==
    CASE c = "." -> 46
      [] c = "/" -> 47
      [] c = "0" -> 48
      [] c = "1" -> 49
      [] c = "2" -> 50
      [] c = "3" -> 51
      [] c = "4" -> 52
      [] c = "5" -> 53
      [] c = "6" -> 54
      [] c = "7" -> 55
      [] c = "8" -> 56
      [] c = "9" -> 57
      [] c = "a" -> 97
      [] c = "b" -> 98
      [] c = "c" -> 99
      [] c = "d" -> 100
      [] c = "e" -> 101
      [] c = "f" -> 102
      [] c = "i" -> 105
      [] c = "l" -> 108
      [] c = "m" -> 109
      [] c = "n" -> 110
      [] c = "p" -> 112
      [] c = "t" -> 116
      [] c = "u" -> 117
      [] c = "x" -> 120

\* a < b for Go strings (bytewise lexical order), as sort.Strings orders names
RECURSIVE StrLess(_, _)
StrLess(a, b) ==
    IF b = <<>> THEN FALSE
    ELSE IF a = <<>> THEN TRUE
    ELSE IF Ord(Head(a)) # Ord(Head(b)) THEN Ord(Head(a)) < Ord(Head(b))
    ELSE StrLess(Tail(a), Tail(b))

\* strings.Split(s, "/") for a non-empty separator: the components of s
RECURSIVE Split(_)
Split(s) ==
    IF s = <<>> THEN << <<>> >>
    ELSE LET rest == Split(Tail(s)) IN
         IF Head(s) = SLASH THEN << <<>> >> \o rest
         ELSE << <<Head(s)>> \o Head(rest) >> \o Tail(rest)

\* strings.Join(comps, "/")
RECURSIVE JoinSlash(_)
JoinSlash(comps) ==
    IF comps = <<>> THEN <<>>
    ELSE IF Len(comps) = 1 THEN Head(comps)
    ELSE Head(comps) \o <<SLASH>> \o JoinSlash(Tail(comps))

\* the element stack filepath.Clean keeps: "" and "." are dropped, ".."
\* removes the element before it (or is dropped at the root, or kept in
\* front of a relative path)
RECURSIVE CleanComps(_, _, _)
CleanComps(comps, out, rooted) ==
    IF comps = <<>> THEN out
    ELSE LET c == Head(comps) IN
         IF c = <<>> \/ c = <<DOT>> THEN CleanComps(Tail(comps), out, rooted)
         ELSE IF c = <<DOT, DOT>>
         THEN IF out # <<>> /\ out[Len(out)] # <<DOT, DOT>>
              THEN CleanComps(Tail(comps), SubSeq(out, 1, Len(out) - 1), rooted)
              ELSE IF rooted THEN CleanComps(Tail(comps), out, rooted)
              ELSE CleanComps(Tail(comps), Append(out, c), rooted)
         ELSE CleanComps(Tail(comps), Append(out, c), rooted)

\* filepath.Clean on a slash-separated path
Clean(p) ==
    IF p = <<>> THEN <<DOT>>
    ELSE LET rooted == Head(p) = SLASH
             body == JoinSlash(CleanComps(Split(p), <<>>, rooted))
             r == IF rooted THEN <<SLASH>> \o body ELSE body
         IN IF r = <<>> THEN <<DOT>> ELSE r

\* filepath.Join(a, b): the non-empty elements joined by "/", then Clean
Join(a, b) ==
    IF a = <<>> /\ b = <<>> THEN <<>>
    ELSE IF a = <<>> THEN Clean(b)
    ELSE IF b = <<>> THEN Clean(a)
    ELSE Clean(a \o <<SLASH>> \o b)

\* index of the last "/" of p, 0 when there is none
RECURSIVE LastSlash(_, _)
LastSlash(p, i) ==
    IF i = 0 THEN 0
    ELSE IF p[i] = SLASH THEN i
    ELSE LastSlash(p, i - 1)

\* filepath.Dir(p): all but the last element of p, cleaned
Dir(p) == Clean(SubSeq(p, 1, LastSlash(p, Len(p))))

\* p without its trailing slashes
RECURSIVE StripTrailing(_)
StripTrailing(p) ==
    IF p # <<>> /\ p[Len(p)] = SLASH THEN StripTrailing(SubSeq(p, 1, Len(p) - 1))
    ELSE p

\* filepath.Base(p): the last element of p
Base(p) ==
    IF p = <<>> THEN <<DOT>>
    ELSE LET q == StripTrailing(p) IN
         IF q = <<>> THEN <<SLASH>>
         ELSE SubSeq(q, LastSlash(q, Len(q)) + 1, Len(q))

\* the decimal digit d as a character
Digit(d) ==
    CASE d = 0 -> "0" [] d = 1 -> "1" [] d = 2 -> "2" [] d = 3 -> "3"
      [] d = 4 -> "4" [] d = 5 -> "5" [] d = 6 -> "6" [] d = 7 -> "7"
      [] d = 8 -> "8" [] d = 9 -> "9"

\* strconv.Itoa for n >= 0
RECURSIVE Itoa(_)
Itoa(n) ==
    IF n < 10 THEN <<Digit(n)>>
    ELSE Itoa(n \div 10) \o <<Digit(n % 10)>>

\* fmt.Sprint(s, n) for a string s and an int n: no space is added next to
\* a string operand
Sprint(s, n) == s \o Itoa(n)

\* ------------------------------------------------------------- the inputs

\* args[0]: a single-component relative root, a multi-component relative
\* root and an absolute root
Roots ==
    { <<"i", "n">>, <<"d", "/", "i", "n">>, <<"/", "i", "n">> }

\* the files a tree may hold, relative to its root, in the order of the walk
RelPaths ==
    << <<"a", "/", "x">>, <<"b", "b", "/", "x">>, <<"c", "/", "x">> >>

\* --ddir and --fdir (their defaults)
ddir == <<".", "/", "d", "u", "p", "d", "u", "m", "p">>
fdir == <<".", "/", "f", "l", "a", "t", "t", "e", "n">>

\* what one path of the tree holds: nothing, or a regular file with a
\* modification time and a content; content 0 is the empty content
NoFile == [present |-> FALSE, mtime |-> 1, content |-> 0]
FileOpts ==
    { NoFile }
    \cup { [present |-> TRUE, mtime |-> 1, content |-> 0] }
    \cup { [present |-> TRUE, mtime |-> t, content |-> c] :
             t \in 1..MaxTime, c \in 1..MaxSha }

\* Contents are only ever compared for equality, so one labelling of each
\* tree is enough: the k-th distinct non-empty content in walk order is k.
Labelled(t) ==
    \A i \in DOMAIN t :
        t[i].content > 1 =>
            \E j \in 1..(i - 1) : t[j].content = t[i].content - 1

Trees == { t \in [DOMAIN RelPaths -> FileOpts] : Labelled(t) }

\* info.Size() of a file with content c
Size(c) == c

\* the sha256 digest of content c, hex-formatted: distinct contents have
\* distinct digests
Sha256(c) == c

\* PathTime{path, time}
PathTime(path, time) == [Path |-> path, Time |-> time]

\* the directories from d up to (and including) root; d is root or below it
RECURSIVE DirsUpTo(_, _)
DirsUpTo(d, root) ==
    IF d = root \/ Len(d) <= Len(root) THEN {root}
    ELSE {d} \cup DirsUpTo(Dir(d), root)

\* the regular files of tree t under root: path :> [mtime, content]
TreeFiles(t, root) ==
    LET present == { i \in DOMAIN t : t[i].present } IN
    [ p \in { Join(root, RelPaths[i]) : i \in present } |->
        LET i == CHOOSE i \in present : Join(root, RelPaths[i]) = p
        IN  [mtime |-> t[i].mtime, content |-> t[i].content] ]

\* the directories of tree t under root, root included
TreeDirs(t, root) ==
    {root} \cup UNION { DirsUpTo(Dir(p), root) : p \in DOMAIN TreeFiles(t, root) }

EmptyMap == [ k \in {} |-> 0 ]

\* the filesystems a run may start on: a root holding a tree, or no root
Inputs ==
    { [args0 |-> r, fs |-> TreeFiles(t, r), dirs |-> TreeDirs(t, r)] :
         r \in Roots, t \in Trees }
    \cup { [args0 |-> r, fs |-> EmptyMap, dirs |-> {}] : r \in Roots }

\* ------------------------------------------------------------------- state

VARIABLES
    args0,      \* args[0], the input root
    dedup, rdup, remove, flatten, dryrun,   \* the flags
    writable,   \* environment: new directories can be created
    fs,         \* the regular files: path :> [mtime, content]
    dirs,       \* the directories
    snap,       \* fs and dirs as they were when the run started
    pc,         \* "start", "walk", "dups", "flatten", "done"
    todo,       \* the entries filepath.Walk has still to visit, in order
    files,      \* map[string]PathTime: sha :> canonical record
    dupFiles,   \* map[PathTime]bool, as the set of its keys
    dupTodo,    \* keys of dupFiles the range loop has still to visit
    flatTodo,   \* shas of files the flatten range loop has still to visit
    filenames,  \* map[string]int of the flatten loop
    flatNames,  \* sha :> the flattenFilename its record was given
    failed,     \* an action-phase filesystem operation returned an error
    result      \* "running", then RunE's return: "ok" (nil) or "error"

vars ==
    << args0, dedup, rdup, remove, flatten, dryrun, writable, fs, dirs, snap,
       pc, todo, files, dupFiles, dupTodo, flatTodo, filenames, flatNames,
       failed, result >>

flags == << args0, dedup, rdup, remove, flatten, dryrun, writable, snap >>

\* the values of a map
Range(f) == { f[k] : k \in DOMAIN f }

\* the state before RunE runs: flags parsed, maps empty (lines 16-30)
Init ==
    /\ dedup \in BOOLEAN /\ rdup \in BOOLEAN
    /\ remove \in BOOLEAN /\ flatten \in BOOLEAN
    /\ dryrun \in BOOLEAN
    /\ writable \in BOOLEAN
    \* a directory at fdir is an input only under --flatten, which alone
    \* looks at it (line 49)
    /\ \E in \in Inputs, fdirExists \in BOOLEAN :
        /\ fdirExists => flatten /\ in.dirs # {}
        /\ args0 = in.args0
        /\ fs = in.fs
        /\ dirs = in.dirs \cup (IF fdirExists THEN {Clean(fdir)} ELSE {})
    /\ snap = [fs |-> fs, dirs |-> dirs]
    /\ pc = "start"
    /\ todo = <<>>
    /\ files = EmptyMap
    /\ dupFiles = {}
    /\ dupTodo = {}
    /\ flatTodo = {}
    /\ filenames = EmptyMap
    /\ flatNames = EmptyMap
    /\ failed = FALSE
    /\ result = "running"

\* ---------------------------------------------------------------- the walk

\* p comes before q in the walk: names are compared element by element, and
\* a directory comes before what it holds
RECURSIVE CompsLess(_, _)
CompsLess(a, b) ==
    IF b = <<>> THEN FALSE
    ELSE IF a = <<>> THEN TRUE
    ELSE IF Head(a) # Head(b) THEN StrLess(Head(a), Head(b))
    ELSE CompsLess(Tail(a), Tail(b))

WalkLess(p, q) == CompsLess(Split(p), Split(q))

\* the entries of S in walk order
RECURSIVE SortEntries(_)
SortEntries(S) ==
    IF S = {} THEN <<>>
    ELSE LET m == CHOOSE x \in S :
                    \A y \in S \ {x} : WalkLess(x.path, y.path)
         IN  <<m>> \o SortEntries(S \ {m})

\* what filepath.Walk(root, fn) passes to fn, in order: root, then the
\* directories and files below it, lexically
WalkOrder(st, root) ==
    SortEntries(
        { [path |-> d, isDir |-> TRUE, mtime |-> 1, content |-> 0] :
            d \in { d \in st.dirs : d = root \/ WalkLess(root, d) } }
        \cup
        { [path |-> p, isDir |-> FALSE, mtime |-> st.fs[p].mtime,
           content |-> st.fs[p].content] : p \in DOMAIN st.fs })

\* line 45: os.Stat(args[0]) reports that the root does not exist
StatInputFails ==
    /\ pc = "start"
    /\ args0 \notin dirs
    /\ pc' = "done"
    /\ result' = "error"
    /\ UNCHANGED << flags, fs, dirs, todo, files, dupFiles, dupTodo, flatTodo,
                    filenames, flatNames, failed >>

\* lines 49-53: under --flatten, os.Stat(fdir) finds something
FlattenDirExists ==
    /\ pc = "start"
    /\ args0 \in dirs
    /\ flatten
    /\ Clean(fdir) \in dirs
    /\ pc' = "done"
    /\ result' = "error"
    /\ UNCHANGED << flags, fs, dirs, todo, files, dupFiles, dupTodo, flatTodo,
                    filenames, flatNames, failed >>

\* BeginWalk without the flatten target check of lines 49-53
BeginWalk_NoFlattenCheck ==
    /\ pc = "start"
    /\ args0 \in dirs
    /\ pc' = "walk"
    /\ todo' = WalkOrder([fs |-> fs, dirs |-> dirs], args0)
    /\ UNCHANGED << flags, fs, dirs, files, dupFiles, dupTodo, flatTodo,
                    filenames, flatNames, failed, result >>

\* line 55: the walk starts
BeginWalk ==
    /\ pc = "start"
    /\ args0 \in dirs
    /\ flatten => Clean(fdir) \notin dirs
    /\ pc' = "walk"
    /\ todo' = WalkOrder([fs |-> fs, dirs |-> dirs], args0)
    /\ UNCHANGED << flags, fs, dirs, files, dupFiles, dupTodo, flatTodo,
                    filenames, flatNames, failed, result >>

\* Replaces with non-strict comparisons
Replaces_NonStrict(old, path, modTime) ==
    old.Time >= modTime \/ Len(old.Path) >= Len(path)

\* Replaces without its path-length clause
Replaces_TimeOnly(old, path, modTime) ==
    old.Time > modTime

\* line 98: the new file replaces the canonical record old
Replaces(old, path, modTime) ==
    old.Time > modTime \/ Len(old.Path) > Len(path)

\* Observe that records every observed file as a duplicate, the first of
\* its fingerprint too
Observe_FirstIsDuplicate(ix, sha, path, modTime) ==
    LET fileInfo == PathTime(path, modTime) IN
    IF sha \notin DOMAIN ix.files
    THEN [files |-> ix.files @@ (sha :> fileInfo),
          dupFiles |-> ix.dupFiles \cup {fileInfo}]
    ELSE LET old == ix.files[sha]
             swap == Replaces(old, path, modTime)
         IN  [files |-> IF swap THEN [ix.files EXCEPT ![sha] = fileInfo]
                        ELSE ix.files,
              dupFiles |-> (IF swap THEN ix.dupFiles \ {ix.files[sha]}
                            ELSE ix.dupFiles) \cup {fileInfo}]

\* Observe without the installation of lines 93-96: a first record falls
\* through to the comparison's else branch and is only recorded as duplicate
Observe_NoInstall(ix, sha, path, modTime) ==
    LET fileInfo == PathTime(path, modTime) IN
    IF sha \notin DOMAIN ix.files
    THEN [files |-> ix.files, dupFiles |-> ix.dupFiles \cup {fileInfo}]
    ELSE LET old == ix.files[sha]
             swap == Replaces(old, path, modTime)
         IN  [files |-> IF swap THEN [ix.files EXCEPT ![sha] = fileInfo]
                        ELSE ix.files,
              dupFiles |-> (IF swap THEN ix.dupFiles \ {ix.files[sha]}
                            ELSE ix.dupFiles) \cup {fileInfo}]

\* lines 90-105: the index after a file with digest sha is observed at
\* path with modification time modTime
Observe(ix, sha, path, modTime) ==
    LET fileInfo == PathTime(path, modTime) IN
    IF sha \notin DOMAIN ix.files
    THEN [files |-> ix.files @@ (sha :> fileInfo), dupFiles |-> ix.dupFiles]
    ELSE LET old == ix.files[sha]
             swap == Replaces(old, path, modTime)
         IN  [files |-> IF swap THEN [ix.files EXCEPT ![sha] = fileInfo]
                        ELSE ix.files,
              dupFiles |-> (IF swap THEN ix.dupFiles \ {ix.files[sha]}
                            ELSE ix.dupFiles) \cup {fileInfo}]

\* Callback without the size check of lines 65-68
Callback_NoSizeCheck(ix, e) ==
    IF e.isDir THEN ix
    ELSE Observe(ix, Sha256(e.content), e.path, e.mtime)

\* lines 61-105: the index after the walk function ran on entry e without error
Callback(ix, e) ==
    IF e.isDir THEN ix
    ELSE IF Size(e.content) = 0 THEN ix
    ELSE Observe(ix, Sha256(e.content), e.path, e.mtime)

\* lines 55-106: the walk function runs on the next entry and returns nil
WalkFn ==
    /\ pc = "walk"
    /\ todo # <<>>
    /\ LET ix == Callback([files |-> files, dupFiles |-> dupFiles], Head(todo))
       IN  /\ files' = ix.files
           /\ dupFiles' = ix.dupFiles
    /\ todo' = Tail(todo)
    /\ UNCHANGED << flags, fs, dirs, pc, dupTodo, flatTodo, filenames,
                    flatNames, failed, result >>

\* WalkErr with the walk's error dropped (no return at lines 108-110): the
\* action phase starts on what was collected
WalkErr_ErrDropped ==
    /\ pc = "walk"
    /\ todo # <<>>
    /\ pc' = "dups"
    /\ dupTodo' = IF dedup \/ rdup THEN dupFiles ELSE {}
    /\ UNCHANGED << flags, fs, dirs, todo, files, dupFiles, flatTodo,
                    filenames, flatNames, failed, result >>

\* lines 56-59, 71-75, 79-82, 108-110: the entry cannot be read (lstat or
\* readdir error, open error, read error); the walk stops and the run ends
\* in error
WalkErr ==
    /\ pc = "walk"
    /\ todo # <<>>
    /\ pc' = "done"
    /\ result' = "error"
    /\ UNCHANGED << flags, fs, dirs, todo, files, dupFiles, dupTodo, flatTodo,
                    filenames, flatNames, failed >>

\* lines 108-112: the walk returned nil; the duplicate action starts
EndWalk ==
    /\ pc = "walk"
    /\ todo = <<>>
    /\ pc' = "dups"
    /\ dupTodo' = IF dedup \/ rdup THEN dupFiles ELSE {}
    /\ UNCHANGED << flags, fs, dirs, todo, files, dupFiles, flatTodo,
                    filenames, flatNames, failed, result >>

\* ---------------------------------------------------------- the filesystem

\* the modification time of a file written during the run
Now == MaxTime + 1

\* d and the directories above it, up to the working directory or the root
RECURSIVE Ancestors(_)
Ancestors(d) ==
    IF d = <<DOT>> \/ d = <<SLASH>> THEN {}
    ELSE {d} \cup Ancestors(Dir(d))

\* os.MkdirAll(d, 0755) on st = [fs, dirs]: an existing directory is left
\* alone; otherwise d and its missing parents are created, which fails when
\* directories cannot be created or a regular file is in the way
MkdirAll(st, d) ==
    IF Ancestors(d) \subseteq st.dirs
    THEN [fs |-> st.fs, dirs |-> st.dirs, err |-> FALSE]
    ELSE IF ~writable \/ Ancestors(d) \cap DOMAIN st.fs # {}
    THEN [fs |-> st.fs, dirs |-> st.dirs, err |-> TRUE]
    ELSE [fs |-> st.fs, dirs |-> st.dirs \cup Ancestors(d), err |-> FALSE]

\* the function f with f[k] = v
Put(f, k, v) == [ x \in DOMAIN f \cup {k} |-> IF x = k THEN v ELSE f[x] ]

\* the function f without the key k
Drop(f, k) == [ x \in DOMAIN f \ {k} |-> f[x] ]

\* copyToDirectory that renames the source instead of copying it
copyToDirectory_Renames(st, filename, destinationDir, newFilename) ==
    LET full == IF newFilename # <<>> THEN Join(destinationDir, newFilename)
                ELSE Join(destinationDir, filename)
        made == MkdirAll(st, Dir(full))
    IN  IF dryrun THEN [fs |-> st.fs, dirs |-> st.dirs, err |-> FALSE]
        ELSE IF made.err THEN made
        ELSE IF filename \notin DOMAIN made.fs \/ full \in made.dirs
        THEN [fs |-> made.fs, dirs |-> made.dirs, err |-> TRUE]
        ELSE [fs |-> Put(Drop(made.fs, filename), full, made.fs[filename]),
              dirs |-> made.dirs, err |-> FALSE]

\* lines 164-200: copyToDirectory(filename, destinationDir, newFilename) on
\* st = [fs, dirs]; err is the error it returns
copyToDirectory(st, filename, destinationDir, newFilename) ==
    LET full == IF newFilename # <<>> THEN Join(destinationDir, newFilename)
                ELSE Join(destinationDir, filename)
        made == MkdirAll(st, Dir(full))
    IN  IF dryrun THEN [fs |-> st.fs, dirs |-> st.dirs, err |-> FALSE]
        ELSE IF made.err THEN made
        ELSE IF filename \notin DOMAIN made.fs \/ full \in made.dirs
        THEN [fs |-> made.fs, dirs |-> made.dirs, err |-> TRUE]
        ELSE [fs |-> Put(made.fs, full,
                         [mtime |-> Now,
                          content |-> IF full = filename THEN 0
                                      ELSE made.fs[filename].content]),
              dirs |-> made.dirs, err |-> FALSE]

\* lines 202-226: moveToDirectory(filename, destinationDir, newFilename)
moveToDirectory(st, filename, destinationDir, newFilename) ==
    LET full == IF newFilename # <<>> THEN Join(destinationDir, newFilename)
                ELSE Join(destinationDir, filename)
        made == MkdirAll(st, Dir(full))
    IN  IF dryrun THEN [fs |-> st.fs, dirs |-> st.dirs, err |-> FALSE]
        ELSE IF made.err THEN made
        ELSE IF filename \notin DOMAIN made.fs \/ full \in made.dirs
        THEN [fs |-> made.fs, dirs |-> made.dirs, err |-> TRUE]
        ELSE [fs |-> Put(Drop(made.fs, filename), full, made.fs[filename]),
              dirs |-> made.dirs, err |-> FALSE]

\* line 127: the path the remove-in-place loop deletes for a record
RemoveTarget(root, path) == Join(Dir(Clean(root)), path)

\* removeInPlace without the dryrun test of line 129
removeInPlace_NoDryrunTest(st, root, path) ==
    LET filename == RemoveTarget(root, path) IN
    IF filename \notin DOMAIN st.fs
    THEN [fs |-> st.fs, dirs |-> st.dirs, err |-> TRUE]
    ELSE [fs |-> Drop(st.fs, filename), dirs |-> st.dirs, err |-> FALSE]

\* lines 127-134: the remove-in-place step for the record at path; err is
\* the error os.Remove returns (the path names no file)
removeInPlace(st, root, path) ==
    LET filename == RemoveTarget(root, path) IN
    IF dryrun THEN [fs |-> st.fs, dirs |-> st.dirs, err |-> FALSE]
    ELSE IF filename \notin DOMAIN st.fs
    THEN [fs |-> st.fs, dirs |-> st.dirs, err |-> TRUE]
    ELSE [fs |-> Drop(st.fs, filename), dirs |-> st.dirs, err |-> FALSE]

\* ------------------------------------------------------ the duplicate action

\* lines 113-117: --dedup --rdup, one round of the loop; the error
\* moveToDirectory returns is dropped
DupMove ==
    /\ pc = "dups"
    /\ dedup /\ rdup
    /\ \E file \in dupTodo :
        LET r == moveToDirectory([fs |-> fs, dirs |-> dirs],
                                 file.Path, ddir, file.Path)
        IN  /\ fs' = r.fs
            /\ dirs' = r.dirs
            /\ failed' = (failed \/ r.err)
            /\ dupTodo' = dupTodo \ {file}
    /\ UNCHANGED << flags, pc, todo, files, dupFiles, flatTodo, filenames,
                    flatNames, result >>

\* lines 118-122: --dedup alone, one round of the loop; the error
\* copyToDirectory returns is dropped
DupCopy ==
    /\ pc = "dups"
    /\ dedup /\ ~rdup
    /\ \E file \in dupTodo :
        LET r == copyToDirectory([fs |-> fs, dirs |-> dirs],
                                 file.Path, ddir, file.Path)
        IN  /\ fs' = r.fs
            /\ dirs' = r.dirs
            /\ failed' = (failed \/ r.err)
            /\ dupTodo' = dupTodo \ {file}
    /\ UNCHANGED << flags, pc, todo, files, dupFiles, flatTodo, filenames,
                    flatNames, result >>

\* lines 124-135: --rdup alone, one round of the loop; an error of
\* os.Remove ends the run
DupRemove ==
    /\ pc = "dups"
    /\ ~dedup /\ rdup
    /\ \E file \in dupTodo :
        LET r == removeInPlace([fs |-> fs, dirs |-> dirs], args0, file.Path)
        IN  /\ fs' = r.fs
            /\ dirs' = r.dirs
            /\ failed' = (failed \/ r.err)
            /\ dupTodo' = dupTodo \ {file}
            /\ pc' = IF r.err THEN "done" ELSE pc
            /\ result' = IF r.err THEN "error" ELSE result
    /\ UNCHANGED << flags, todo, files, dupFiles, flatTodo, filenames,
                    flatNames >>

\* EndDups that does not wait for the duplicate loop to finish
EndDups_Early ==
    /\ pc = "dups"
    /\ pc' = "flatten"
    /\ flatTodo' = IF flatten THEN DOMAIN files ELSE {}
    /\ filenames' = EmptyMap
    /\ UNCHANGED << flags, fs, dirs, todo, files, dupFiles, dupTodo,
                    flatNames, failed, result >>

\* lines 136-140: the duplicate loop is over; the flatten loop starts
EndDups ==
    /\ pc = "dups"
    /\ dupTodo = {}
    /\ pc' = "flatten"
    /\ flatTodo' = IF flatten THEN DOMAIN files ELSE {}
    /\ filenames' = EmptyMap
    /\ UNCHANGED << flags, fs, dirs, todo, files, dupFiles, dupTodo,
                    flatNames, failed, result >>

\* ------------------------------------------------------------ the flattening

\* lines 145-151: the name given to the record at path, and filenames after
FlattenName(fnames, path) ==
    LET base == Base(path) IN
    IF base \in DOMAIN fnames
    THEN LET suffixed == Sprint(base, fnames[base]) IN
         [name |-> suffixed,
          filenames |-> Put(fnames, suffixed,
                            IF suffixed \in DOMAIN fnames
                            THEN fnames[suffixed] + 1 ELSE 1)]
    ELSE [name |-> base, filenames |-> Put(fnames, base, 1)]

\* lines 141-158: one round of the flatten loop; the error of the move or
\* copy is dropped
FlattenStep ==
    /\ pc = "flatten"
    /\ \E sha \in flatTodo :
        LET file == files[sha]
            n == FlattenName(filenames, file.Path)
            st == [fs |-> fs, dirs |-> dirs]
            r == IF remove THEN moveToDirectory(st, file.Path, fdir, n.name)
                 ELSE copyToDirectory(st, file.Path, fdir, n.name)
        IN  /\ filenames' = n.filenames
            /\ flatNames' = Put(flatNames, sha, n.name)
            /\ fs' = r.fs
            /\ dirs' = r.dirs
            /\ failed' = (failed \/ r.err)
            /\ flatTodo' = flatTodo \ {sha}
    /\ UNCHANGED << flags, pc, todo, files, dupFiles, dupTodo, result >>

\* line 160: return nil
EndRun ==
    /\ pc = "flatten"
    /\ flatTodo = {}
    /\ pc' = "done"
    /\ result' = "ok"
    /\ UNCHANGED << flags, fs, dirs, todo, files, dupFiles, dupTodo, flatTodo,
                    filenames, flatNames, failed >>

Next ==
    \/ StatInputFails
    \/ FlattenDirExists
    \/ BeginWalk
    \/ WalkFn
    \/ WalkErr
    \/ EndWalk
    \/ DupMove
    \/ DupCopy
    \/ DupRemove
    \/ EndDups
    \/ FlattenStep
    \/ EndRun

Spec == Init /\ [][Next]_vars

\* ------------------------------------------------------------- the claims

\* the run got past its precondition checks (lines 45-53)
WalkBegan ==
    /\ pc # "start"
    /\ args0 \in snap.dirs
    /\ flatten => Clean(fdir) \notin snap.dirs

\* the walk has visited every entry
WalkOver == WalkBegan /\ pc # "walk" /\ todo = <<>>

\* the paths of the regular files the walk function has been called on
Visited ==
    IF pc = "start" \/ ~WalkBegan THEN {}
    ELSE { p \in DOMAIN snap.fs : \A i \in DOMAIN todo : todo[i].path # p }

\* the records observed so far: one per non-empty file visited
ObservedRecs ==
    { PathTime(p, snap.fs[p].mtime) :
        p \in { q \in Visited : Size(snap.fs[q].content) # 0 } }

\* the digest of the file a record was made from
ShaOf(rec) == Sha256(snap.fs[rec.Path].content)

\* the observed records with the digest of rec
SameContent(rec) == { r \in ObservedRecs : ShaOf(r) = ShaOf(rec) }

\* the index after the walk function ran on the entries of seq, in order
RECURSIVE WalkResult(_, _)
WalkResult(ix, seq) ==
    IF seq = <<>> THEN ix
    ELSE WalkResult(Callback(ix, Head(seq)), Tail(seq))

\* the orders in which the elements of S can be visited
Orders(S) ==
    { q \in [1..Cardinality(S) -> S] :
        \A i, j \in 1..Cardinality(S) : q[i] = q[j] => i = j }

\* the file entries of the input tree
FileEntries ==
    LET w == WalkOrder(snap, args0) IN
    { w[i] : i \in { j \in DOMAIN w : ~w[j].isDir } }

\* C1: every observed record other than the canonical one of its
\* fingerprint is in the duplicate collection.
C1_NonCanonicalAreDuplicates ==
    \A rec \in ObservedRecs :
        rec # files[ShaOf(rec)] => rec \in dupFiles

\* C2: the canonical record of a fingerprint is never in the duplicate
\* collection.
C2_CanonicalNotDuplicate ==
    \A sha \in DOMAIN files : files[sha] \notin dupFiles

\* C3: when the walk is over, the index is the one every other order of
\* observing the same files gives.
C3_OrderIndependent ==
    WalkOver =>
        \A q \in Orders(FileEntries) :
            WalkResult([files |-> EmptyMap, dupFiles |-> {}], q)
                = [files |-> files, dupFiles |-> dupFiles]

\* C4: of two files with the same content, the strictly older one is
\* canonical when the walk is over.
C4_OlderIsCanonical ==
    WalkOver =>
        \A r1, r2 \in ObservedRecs :
            (SameContent(r1) = {r1, r2} /\ r1.Time < r2.Time)
                => files[ShaOf(r1)] = r1

\* C5: of two files with the same content and the same modification time,
\* the one with the shorter path is canonical when the walk is over.
C5_ShorterIsCanonical ==
    WalkOver =>
        \A r1, r2 \in ObservedRecs :
            (/\ SameContent(r1) = {r1, r2}
             /\ r1.Time = r2.Time
             /\ Len(r1.Path) < Len(r2.Path))
                => files[ShaOf(r1)] = r1

\* C5 witness: the walk is over, the shorter of two equal-time files with
\* one content was observed second and is canonical.
W5_ShorterObservedSecond ==
    /\ WalkOver
    /\ \E r1, r2 \in ObservedRecs :
        /\ SameContent(r1) = {r1, r2}
        /\ r1.Time = r2.Time
        /\ Len(r1.Path) < Len(r2.Path)
        /\ WalkLess(r2.Path, r1.Path)
        /\ files[ShaOf(r1)] = r1

\* C6: with --flatten and a duplicate action that moves or deletes, the
\* duplicate action leaves every canonical record's file in place, and
\* (where directories can be created) when the run has returned nil every
\* canonical record's file is in fdir.
C6_DupActionSparesCanonical ==
    (flatten /\ rdup /\ ~dryrun) =>
        /\ pc = "dups" => \A sha \in DOMAIN files : files[sha].Path \in DOMAIN fs
        /\ (pc = "done" /\ result = "ok" /\ writable) =>
              \A sha \in DOMAIN files :
                  /\ sha \in DOMAIN flatNames
                  /\ Join(fdir, flatNames[sha]) \in DOMAIN fs
                  /\ fs[Join(fdir, flatNames[sha])].content
                        = snap.fs[files[sha].Path].content

\* C7: no two canonical records are given the same flatten name.
C7_FlattenNamesInjective ==
    \A s1, s2 \in DOMAIN flatNames :
        s1 # s2 => flatNames[s1] # flatNames[s2]

\* C8: under --dryrun the filesystem stays as the run found it.
C8_DryRunNoMutation ==
    dryrun => fs = snap.fs /\ dirs = snap.dirs

\* C8 witness: a dry run with every option set has gone through the
\* duplicate loop and the flatten loop on a tree with a duplicate.
W8_DryRunAllOptions ==
    /\ dryrun /\ dedup /\ rdup /\ flatten /\ remove
    /\ pc = "done" /\ result = "ok"
    /\ dupFiles # {}
    /\ DOMAIN flatNames = DOMAIN files

\* C9: once an action-phase filesystem operation has failed, the run is
\* over and has returned an error.
C9_FailuresSurfaced ==
    failed => pc = "done" /\ result = "error"

\* the index holds no record of a zero-byte file
NoZeroByteRecord ==
    \A rec \in Range(files) \cup dupFiles : Size(snap.fs[rec.Path].content) # 0

\* the walk function returning on a zero-byte file leaves the index as it was
ZeroByteStep ==
    (/\ pc = "walk" /\ todo # <<>>
     /\ ~Head(todo).isDir /\ Size(Head(todo).content) = 0
     /\ todo' = Tail(todo))
        => files' = files /\ dupFiles' = dupFiles

\* C10: a zero-byte file is never canonical and never a duplicate, and
\* observing it changes neither the index nor the duplicate collection.
C10_ZeroByteExcluded ==
    []NoZeroByteRecord /\ [][ZeroByteStep]_vars

\* C10 witness: a zero-byte file has been visited after a record was
\* installed, and the walk went on.
W10_ZeroByteVisited ==
    /\ pc = "walk"
    /\ files # EmptyMap
    /\ \E p \in Visited : Size(snap.fs[p].content) = 0

\* the flatten names the loop of lines 141-152 gives when it visits the
\* records of the digests of seq in that order, as digest :> name
RECURSIVE NamesInOrder(_, _, _)
NamesInOrder(fnames, names, seq) ==
    IF seq = <<>> THEN names
    ELSE LET n == FlattenName(fnames, files[Head(seq)].Path)
         IN  NamesInOrder(n.filenames, Put(names, Head(seq), n.name), Tail(seq))

\* C11: when the flatten loop is over, the record-to-name mapping is the one
\* every other iteration order of the canonical records gives.
C11_FlattenMappingFixed ==
    (flatten /\ pc = "done" /\ result = "ok") =>
        \A q \in Orders(DOMAIN files) :
            NamesInOrder(EmptyMap, EmptyMap, q) = flatNames

\* C12: a run whose preconditions fail is over with an error, has observed
\* no file and has left the filesystem as it found it.
C12_PreconditionsFailFast ==
    (pc # "start" /\ ~WalkBegan) =>
        /\ pc = "done" /\ result = "error"
        /\ todo = <<>> /\ files = EmptyMap /\ dupFiles = {}
        /\ fs = snap.fs /\ dirs = snap.dirs

\* C12 witness: --flatten with a directory at fdir, every other option set,
\* on a tree that holds files: the run is over.
W12_FlattenTargetExists ==
    /\ pc = "done"
    /\ flatten /\ Clean(fdir) \in snap.dirs
    /\ dedup /\ rdup /\ remove /\ ~dryrun
    /\ snap.fs # EmptyMap

\* C13: when the walk stopped before its last entry, the run is over with an
\* error and the filesystem is as the run found it.
C13_WalkErrorStopsRun ==
    (WalkBegan /\ pc # "walk" /\ todo # <<>>) =>
        /\ pc = "done" /\ result = "error"
        /\ fs = snap.fs /\ dirs = snap.dirs
        /\ dupTodo = {} /\ flatTodo = {} /\ flatNames = EmptyMap

\* C13 witness: the walk failed after it had collected a duplicate, with a
\* duplicate action and the flattening enabled.
W13_WalkFailedAfterDuplicate ==
    /\ pc = "done" /\ todo # <<>>
    /\ dupFiles # {}
    /\ dedup /\ rdup /\ flatten /\ ~dryrun

C15_OneCanonicalPerFingerprint ==
    /\ DOMAIN files = { ShaOf(r) : r \in ObservedRecs }
    /\ \A sha \in DOMAIN files :
          files[sha] \in ObservedRecs /\ ShaOf(files[sha]) = sha

\* C15 witness: the walk is over, it observed two fingerprints and one of
\* them twice.
W15_TwoFingerprints ==
    /\ WalkOver
    /\ Cardinality(DOMAIN files) = 2
    /\ Cardinality(ObservedRecs) = 3

\* the walk function returns on a non-empty file whose fingerprint already
\* has a canonical record: the new record becomes canonical exactly when
\* the old one is strictly newer or has a strictly longer path; otherwise
\* the old one stays and the new one is a duplicate; the canonical records
\* of the other fingerprints stay
ObserveStepRule ==
    (/\ pc = "walk" /\ todo # <<>> /\ todo' = Tail(todo)
     /\ ~Head(todo).isDir /\ Size(Head(todo).content) # 0
     /\ Sha256(Head(todo).content) \in DOMAIN files)
        => LET e == Head(todo)
               sha == Sha256(e.content)
               old == files[sha]
               new == PathTime(e.path, e.mtime)
               wins == old.Time > new.Time \/ Len(old.Path) > Len(new.Path)
           IN  /\ DOMAIN files' = DOMAIN files
               /\ (files'[sha] = new) <=> wins
               /\ ~wins => files'[sha] = old /\ new \in dupFiles'
               /\ \A other \in DOMAIN files \ {sha} :
                     files'[other] = files[other]

\* C16: every observe step on a fingerprint that has a canonical record
\* follows the tie-break rule.
C16_ObserveStepRule == [][ObserveStepRule]_vars

\* C16 witness: two files with one content, equal times and equal path
\* lengths were observed; the first is still canonical and the second is a
\* duplicate, next to the canonical record of another fingerprint.
W16_TieKeepsOld ==
    /\ pc = "walk"
    /\ Cardinality(DOMAIN files) = 2
    /\ \E r1, r2 \in ObservedRecs :
        /\ r1 # r2 /\ ShaOf(r1) = ShaOf(r2)
        /\ r1.Time = r2.Time /\ Len(r1.Path) = Len(r2.Path)
        /\ WalkLess(r1.Path, r2.Path)
        /\ files[ShaOf(r1)] = r1
        /\ r2 \in dupFiles

\* the numeric suffixes given so far to records with base filename base
GivenSuffixes(names, base) ==
    { k \in 0..9 : \E s \in DOMAIN names :
        Base(files[s].Path) = base /\ names[s] = Sprint(base, k) }

\* the digests of the records already given a flatten name whose base
\* filename is base
NamedWithBase(names, base) ==
    { s \in DOMAIN names : Base(files[s].Path) = base }

\* one round of the flatten loop gives the first record of a base filename
\* that base filename, and a later one the base filename plus a number
\* above every suffix given before to that base filename
FlattenStepRule ==
    (pc = "flatten" /\ flatTodo' # flatTodo) =>
        \A sha \in flatTodo \ flatTodo' :
            LET base == Base(files[sha].Path) IN
            IF NamedWithBase(flatNames, base) = {}
            THEN flatNames'[sha] = base
            ELSE \E k \in 0..9 :
                    /\ flatNames'[sha] = Sprint(base, k)
                    /\ \A j \in GivenSuffixes(flatNames, base) : k > j

\* C17: every round of the flatten loop follows the naming rule.
C17_SuffixesIncrease == [][FlattenStepRule]_vars

\* C18: in remove-in-place mode (without flattening, so that only the
\* remove loop changes the filesystem) the files gone are exactly the files
\* at the paths of the duplicate records the loop has handled.
C18_RemovesRecordPath ==
    (rdup /\ ~dedup /\ ~dryrun /\ ~flatten /\ WalkOver) =>
        DOMAIN fs = DOMAIN snap.fs \ { file.Path : file \in dupFiles \ dupTodo }

\* nothing outside the index changes while the run is at start or in the
\* walk; the action phase runs on a finished walk; the flatten loop has not
\* begun during the duplicate loop, which is over during the flatten loop
PhaseOrder ==
    /\ pc \in {"start", "walk"} =>
          /\ fs = snap.fs /\ dirs = snap.dirs
          /\ dupTodo = {} /\ flatTodo = {} /\ flatNames = EmptyMap
    /\ pc \in {"dups", "flatten"} => todo = <<>>
    /\ pc = "dups" =>
          /\ flatTodo = {} /\ flatNames = EmptyMap
          /\ Clean(fdir) \in dirs => Clean(fdir) \in snap.dirs
    /\ pc = "flatten" => dupTodo = {}

\* a step taken in the action phase leaves the index as it was
IndexFrozen ==
    pc \in {"dups", "flatten"} => files' = files /\ dupFiles' = dupFiles

\* C19: no filesystem mutation during the walk, no index change in the
\* action phase, the duplicate loop before the flatten loop.
C19_PhasesInOrder == []PhaseOrder /\ [][IndexFrozen]_vars

\* C19 witness: the flatten loop is running after a duplicate loop that
\* moved a file, and has placed a file in fdir.
W19_FlattenAfterDups ==
    /\ pc = "flatten"
    /\ dedup /\ rdup /\ ~dryrun
    /\ \E p \in DOMAIN fs : Dir(p) = Clean(fdir)
    /\ \E file \in dupFiles : Join(ddir, file.Path) \in DOMAIN fs

\* C20: every observed fingerprint has an observed record outside the
\* duplicate collection, the first record observed with it is outside, and
\* without flattening every content of the input tree keeps a copy in it.
C20_OneCopySurvives ==
    /\ \A rec \in ObservedRecs :
          /\ \E r \in SameContent(rec) : r \notin dupFiles
          /\ (\A r \in SameContent(rec) \ {rec} : WalkLess(rec.Path, r.Path))
                => rec \notin dupFiles
    /\ ~flatten =>
          \A p \in DOMAIN snap.fs :
              \E q \in DOMAIN snap.fs \cap DOMAIN fs :
                  fs[q].content = snap.fs[p].content

\* C20 witness: a remove-in-place run without flattening has deleted a
\* duplicate and is over.
W20_DuplicateRemoved ==
    /\ rdup /\ ~dedup /\ ~dryrun /\ ~flatten
    /\ pc = "done" /\ result = "ok"
    /\ DOMAIN fs # DOMAIN snap.fs

====
